---------------------------- MODULE Spec2Model ----------------------------
(***************************************************************************)
(* Governance layer of TextAI Studio (src/textai_studio_app.py):           *)
(* UserManager, APIKeyManager, RateLimiter and the JSON files behind them. *)
(*                                                                         *)
(* Every manager object keeps a dict in memory, loaded from its JSON file  *)
(* when the object is constructed, and dumps the whole dict back to the    *)
(* file after a mutation.  The model keeps one in-memory dict per manager  *)
(* object (indexed by Insts) beside the file's contents.                   *)
(*                                                                         *)
(* Strings that the code converts are modelled by what the conversion      *)
(* does:                                                                   *)
(*   - datetime.isoformat()/fromisoformat(): a timestamp string is the     *)
(*     record [iso |-> t]; isoformat wraps, fromisoformat unwraps.         *)
(*   - hashlib.sha256(..).hexdigest(): a string is [id, h], the base       *)
(*     string id hashed h times; sha256 adds one to h (collision-free).    *)
(*   - bcrypt.hashpw/checkpw: the hash keeps the salt and the first 72     *)
(*     bytes of the password, which is all bcrypt reads.                   *)
(***************************************************************************)
EXTENDS Integers, Sequences, FiniteSets, TLC

VARIABLES
    now,        \* datetime.now(), in clock ticks
    users,      \* UserManager.users of each manager object
    usersFile,  \* user_data/users.json
    keys,       \* APIKeyManager.keys of each manager object
    keysFile,   \* user_data/api_keys/api_keys.json
    limits,     \* RateLimiter.limits of each manager object
    limitsFile, \* user_data/rate_limits.json
    history,    \* user_data/history/<username>.json, per username
    ret,        \* the value returned by the last call
    issued,     \* every raw key generate_key has returned, with its username
    calls,      \* number of check_limit calls made so far
    log,        \* outcomes of the check_limit calls, in order
    pc,         \* per request thread: its position inside the call it runs
    frame,      \* per request thread: the locals of the call it runs
    session,    \* st.session_state of the browser session
    torn        \* the files a writer opened with 'w' and has not finished

vars == <<now, users, usersFile, keys, keysFile, limits, limitsFile, history,
          ret, issued, calls, log, pc, frame, session, torn>>

-----------------------------------------------------------------------------
(* Bounds of the model *)

\* Clock ticks per hour: the resolution of the modelled clock.
TicksPerHour == 2
\* The clock stops advancing at MaxTime.
MaxTime == 3
\* check_limit calls explored by SpecRate after the initial state.
MaxCalls == 2
\* Calls explored by SpecBurst after the burst of `limit` calls.
MaxExtra == 2
\* The clock stops at MaxStamp in the account and the API-key specifications.
MaxStamp == 1
\* Raw API keys that secrets.token_bytes can draw.
NumKeys == 2

Insts == {1, 2}
Threads == {1, 2}
Users == {"alice", "bob"}
Tiers == {"guest", "user", "pro", "trial"}
Emails == {"a@x.org", "b@x.org"}
Salts == {"salt1", "salt2"}

-----------------------------------------------------------------------------
(* Python dicts and lists *)

EmptyDict == [k \in {} |-> 0]

Put(d, k, v) == [x \in (DOMAIN d) \cup {k} |-> IF x = k THEN v ELSE d[x]]

Get(d, k, default) == IF k \in DOMAIN d THEN d[k] ELSE default

\* Python's None, and a value that is not None.
None == <<>>
Some(x) == <<x>>

\* What a UserManager or APIKeyManager call returns.
Ret(op, ok, msg) ==
    [op |-> op, ok |-> ok, msg |-> msg, name |-> None, key |-> None,
     acct |-> None]

-----------------------------------------------------------------------------
(* Timestamps *)

isoformat(t) == [iso |-> t]

fromisoformat(s) == s.iso

Hour == TicksPerHour

\* The clock moves between calls.
Tick ==
    /\ now < MaxTime
    /\ now' = now + 1
    /\ UNCHANGED <<session, torn, users, usersFile, keys, keysFile, limits, limitsFile,
                   history, ret, issued, calls, log, pc, frame>>

-----------------------------------------------------------------------------
(* Files *)

\* The files under user_data/, by name.
UsersFileName == <<"user_data", "users.json">>
KeysFileName == <<"api_keys", "api_keys.json">>
LimitsFileName == <<"user_data", "rate_limits.json">>
HistoryFileName(username) == <<"history", username>>

\* A bug the code does not have: json.load never raises.
AlwaysReadable(file) == FALSE

\* json.load of a file that open(.., 'w') has truncated and json.dump has not
\* yet completed raises json.JSONDecodeError: a proper prefix of the text of
\* a JSON object or array is no JSON text.
Unreadable(file) == file \in torn

\* What the caller of a constructor gets when json.load raises.
RetRaised(op) == Ret(op, FALSE, "JSONDecodeError")

-----------------------------------------------------------------------------
(* RateLimiter *)

RATE_LIMITS == [guest |-> 10, user |-> 100, pro |-> 1000]

\* A bug the code does not have: an unnamed tier gets the user tier's limit.
GetLimitFallsBackToUser(tier) ==
    IF tier \in DOMAIN RATE_LIMITS THEN RATE_LIMITS[tier] ELSE RATE_LIMITS["user"]

\* RATE_LIMITS.get(tier, 10)
GetLimit(tier) == IF tier \in DOMAIN RATE_LIMITS THEN RATE_LIMITS[tier] ELSE 10

\* json.load of rate_limits.json, {} when the file does not exist
load_limits == limitsFile

\* RateLimiter(): a manager object is constructed and loads the file.
RateLimiterInit(i) ==
    /\ IF Unreadable(LimitsFileName)
       THEN ret' = RetRaised("RateLimiter") /\ UNCHANGED limits
       ELSE limits' = [limits EXCEPT ![i] = load_limits] /\ UNCHANGED ret
    /\ UNCHANGED <<now, users, usersFile, keys, keysFile, limitsFile, history,
                   issued, calls, log, pc, frame, session, torn>>

\* A bug the code does not have: a timestamp exactly one hour old is kept.
PruneKeepsHourOld(window, t) ==
    LET hour_ago == t - Hour
        Recent(ts) == fromisoformat(ts) >= hour_ago
    IN  SelectSeq(window, Recent)

\* [ts for ts in window if datetime.fromisoformat(ts) > hour_ago]
Prune(window, t) ==
    LET hour_ago == t - Hour
        Recent(ts) == fromisoformat(ts) > hour_ago
    IN  SelectSeq(window, Recent)

\* A bug the code does not have: one request more than the limit is admitted.
AdmitsAtLimit(n, limit) == n <= limit

\* not (len(self.limits[username]) >= limit)
Admits(n, limit) == ~(n >= limit)

\* limit - len(self.limits[username]), after the append
Remaining(n, limit) == limit - n

RetLimit(ok, n, limit) ==
    [op |-> "check_limit", ok |-> ok,
     msg |-> IF ok THEN "Remaining" ELSE "Rate limit exceeded",
     n |-> n, limit |-> limit]

\* The state of manager object i after check_limit(username, tier) at time t:
\* its window for username, whether the request is admitted, the quota shown.
CheckOutcome(i, username, tier, t) ==
    LET cur == Get(limits[i], username, <<>>)
        pruned == Prune(cur, t)
        limit == GetLimit(tier)
        ok == Admits(Len(pruned), limit)
        window == IF ok THEN Append(pruned, isoformat(t)) ELSE pruned
    IN  [window |-> window, ok |-> ok, limit |-> limit,
         n |-> IF ok THEN Remaining(Len(window), limit) ELSE limit]

\* RateLimiter.check_limit(username, tier), run without interruption.
check_limit(i, username, tier) ==
    LET out == CheckOutcome(i, username, tier, now)
        mem == Put(limits[i], username, out.window)
    IN  /\ limits' = [limits EXCEPT ![i] = mem]
        /\ limitsFile' = IF out.ok THEN mem ELSE limitsFile
        /\ ret' = RetLimit(out.ok, out.n, out.limit)
        /\ UNCHANGED <<session, torn, now, users, usersFile, keys, keysFile, history, issued,
                       pc, frame>>

-----------------------------------------------------------------------------
(* Passwords and bcrypt *)

\* The password made of n letters c.
Rep(c, n) == [k \in 1..n |-> c]

\* password + "x"
PlusX(p) == Append(p, "x")

\* bcrypt reads no more than the first 72 bytes of a password.
BcryptMaxBytes == 72

\* Passwords callers type: eight letters (the shortest the signup page lets
\* through), 72 letters, and each of the two with "x" added.
Passwords ==
    {Rep("a", 8), PlusX(Rep("a", 8)),
     Rep("a", BcryptMaxBytes), PlusX(Rep("a", BcryptMaxBytes))}

\* password.encode('utf-8'): the modelled passwords are ASCII, one byte per
\* character.
encode(p) == p

\* The bytes of the password that bcrypt reads.
BcryptInput(bytes) ==
    SubSeq(bytes, 1, IF Len(bytes) < BcryptMaxBytes THEN Len(bytes)
                     ELSE BcryptMaxBytes)

\* bcrypt.hashpw(bytes, salt), decoded: the string "$2b$12$<salt><digest>".
hashpw(bytes, salt) ==
    [kind |-> "bcrypt", salt |-> salt, text |-> BcryptInput(bytes)]

\* A string that is no bcrypt hash: the text as the caller gave it.
Plain(p) == [kind |-> "plain", salt |-> "", text |-> p]

\* bcrypt.checkpw(bytes, stored): hashes with the stored salt and compares;
\* raises ValueError ("Invalid salt") when stored is no bcrypt hash.
checkpw(bytes, stored) ==
    IF stored.kind # "bcrypt" THEN "ValueError"
    ELSE IF hashpw(bytes, stored.salt) = stored THEN "True" ELSE "False"

-----------------------------------------------------------------------------
(* UserManager *)

\* json.load of users.json, {} when the file does not exist
load_users == usersFile

\* UserManager(): a manager object is constructed and loads the file.
UserManagerInit(i) ==
    /\ IF Unreadable(UsersFileName)
       THEN ret' = RetRaised("UserManager") /\ UNCHANGED users
       ELSE users' = [users EXCEPT ![i] = load_users] /\ UNCHANGED ret
    /\ UNCHANGED <<now, usersFile, keys, keysFile, limits, limitsFile, history,
                   issued, calls, log, pc, frame, session, torn>>

\* A bug the code does not have: registration without the duplicate check.
UsernameNeverTaken(d, username) == FALSE

\* if username in self.users
UsernameTaken(d, username) == username \in DOMAIN d

\* The account register_user creates.
NewAccount(password, salt, email, t) ==
    [password |-> hashpw(encode(password), salt),
     email |-> email,
     tier |-> "user",
     created_at |-> isoformat(t),
     api_key |-> None]

\* What register_user does to the manager's dict, the file and the caller
\* (lines 82-96).
Register(i, username, password, email) ==
    IF UsernameTaken(users[i], username)
    THEN /\ ret' = Ret("register_user", FALSE, "Username already exists")
         /\ UNCHANGED <<users, usersFile>>
    ELSE /\ \E salt \in Salts :
               users' = [users EXCEPT ![i] =
                  Put(@, username, NewAccount(password, salt, email, now))]
         /\ usersFile' = users'[i]
         /\ ret' = Ret("register_user", TRUE, "Registration successful")

\* UserManager.register_user(username, password, email)
register_user(i, username, password, email) ==
    /\ Register(i, username, password, email)
    /\ UNCHANGED <<session, torn, now, keys, keysFile, limits, limitsFile, history, issued,
                   calls, log, pc, frame>>

\* What authenticate_user(username, password) does on the dict d: returns
\* True or False, or lets checkpw's ValueError through.
AuthResult(d, username, password) ==
    IF username \notin DOMAIN d THEN "False"
    ELSE checkpw(encode(password), d[username].password)

\* UserManager.authenticate_user(username, password)
authenticate_user(i, username, password) ==
    /\ LET r == AuthResult(users[i], username, password)
       IN  ret' = Ret("authenticate_user", r = "True", r)
    /\ UNCHANGED <<session, torn, now, users, usersFile, keys, keysFile, limits, limitsFile,
                   history, issued, calls, log, pc, frame>>

\* UserManager.get_user(username): self.users.get(username)
get_user(i, username) ==
    /\ ret' = [Ret("get_user", username \in DOMAIN users[i], "") EXCEPT
                  !.acct = IF username \in DOMAIN users[i]
                           THEN Some(users[i][username]) ELSE None]
    /\ UNCHANGED <<session, torn, now, users, usersFile, keys, keysFile, limits, limitsFile,
                   history, issued, calls, log, pc, frame>>

\* A bug the code does not have: the account is replaced by the updates.
UpdateReplaces(acct, updates) == updates

\* dict.update: the fields of updates overwrite or extend those of acct.
Update(acct, updates) ==
    [f \in (DOMAIN acct) \cup (DOMAIN updates) |->
        IF f \in DOMAIN updates THEN updates[f] ELSE acct[f]]

\* The partial updates callers pass to update_user.
Updates ==
    {EmptyDict, [tier |-> "pro"], [email |-> "b@x.org"],
     [password |-> Plain(Rep("a", 8))]}

\* UserManager.update_user(username, updates)
update_user(i, username, updates) ==
    /\ IF username \in DOMAIN users[i]
       THEN /\ users' = [users EXCEPT ![i][username] = Update(@, updates)]
            /\ usersFile' = users'[i]
            /\ ret' = Ret("update_user", TRUE, "")
       ELSE /\ ret' = Ret("update_user", FALSE, "")
            /\ UNCHANGED <<users, usersFile>>
    /\ UNCHANGED <<session, torn, now, keys, keysFile, limits, limitsFile, history, issued,
                   calls, log, pc, frame>>

-----------------------------------------------------------------------------
(* APIKeyManager *)

\* 'sk_' + base64.b64encode(random_bytes): the raw key made of the 32 random
\* bytes numbered id.
RawKey(id) == [id |-> id, h |-> 0]

\* hashlib.sha256(s.encode()).hexdigest(): one more hash over the string s.
\* No two strings have the same hash.
sha256(s) == [id |-> s.id, h |-> s.h + 1]

\* The strings callers present as keys: the raw keys, issued or not, and
\* their hashes as they stand in api_keys.json.
Presented == {RawKey(id) : id \in 1..NumKeys} \cup
             {sha256(RawKey(id)) : id \in 1..NumKeys}

\* json.load of api_keys.json, {} when the file does not exist
load_keys == keysFile

\* APIKeyManager(): a manager object is constructed and loads the file.
APIKeyManagerInit(i) ==
    /\ IF Unreadable(KeysFileName)
       THEN ret' = RetRaised("APIKeyManager") /\ UNCHANGED keys
       ELSE keys' = [keys EXCEPT ![i] = load_keys] /\ UNCHANGED ret
    /\ UNCHANGED <<now, users, usersFile, keysFile, limits, limitsFile,
                   history, issued, calls, log, pc, frame, session, torn>>

\* A bug the code does not have: the raw key is kept beside the username.
KeyEntryWithRawKey(username, api_key, t) ==
    [username |-> username, created_at |-> isoformat(t), api_key |-> api_key]

\* {'username': username, 'created_at': datetime.now().isoformat()}
KeyEntry(username, api_key, t) ==
    [username |-> username, created_at |-> isoformat(t)]

\* A bug the code does not have: a new key replaces the user's earlier keys.
StoreKeySuperseding(d, key_hash, entry) ==
    LET others == {h \in DOMAIN d : d[h].username # entry.username}
    IN  [h \in others \cup {key_hash} |-> IF h = key_hash THEN entry ELSE d[h]]

\* self.keys[key_hash] = {...}
StoreKey(d, key_hash, entry) == Put(d, key_hash, entry)

\* What generate_key does to the manager's dict, the file and the caller
\* (lines 206-219).  secrets.token_bytes(32) draws bytes that no earlier key
\* was made of.
Generate(i, username) ==
    \E id \in 1..NumKeys :
       LET api_key == RawKey(id)
           key_hash == sha256(api_key)
       IN  /\ api_key \notin DOMAIN issued
           /\ keys' = [keys EXCEPT ![i] =
                 StoreKey(@, key_hash, KeyEntry(username, api_key, now))]
           /\ keysFile' = keys'[i]
           /\ issued' = Put(issued, api_key, username)
           /\ ret' = [Ret("generate_key", TRUE, "") EXCEPT
                         !.key = Some(api_key)]

\* APIKeyManager.generate_key(username), run without interruption.
generate_key(i, username) ==
    /\ Generate(i, username)
    /\ UNCHANGED <<session, torn, now, users, usersFile, limits, limitsFile, history, calls,
                   log, pc, frame>>

\* key_hash in self.keys, for key_hash the sha256 of the presented string
KeyKnown(d, api_key) == sha256(api_key) \in DOMAIN d

\* self.keys[key_hash]['username'] if key_hash in self.keys, else None
UserOfKey(d, api_key) ==
    IF sha256(api_key) \in DOMAIN d
    THEN Some(d[sha256(api_key)].username) ELSE None

\* A bug the code does not have: a validation is recorded in the store.
validate_key_recorded(i, api_key) ==
    /\ ret' = Ret("validate_key", KeyKnown(keys[i], api_key), "")
    /\ keys' = [keys EXCEPT ![i] =
                   Put(@, sha256(api_key), KeyEntry("", api_key, now))]
    /\ keysFile' = keys'[i]
    /\ UNCHANGED <<session, torn, now, users, usersFile, limits, limitsFile, history, issued,
                   calls, log, pc, frame>>

\* APIKeyManager.validate_key(api_key)
validate_key(i, api_key) ==
    /\ ret' = Ret("validate_key", KeyKnown(keys[i], api_key), "")
    /\ UNCHANGED <<session, torn, now, users, usersFile, keys, keysFile, limits, limitsFile,
                   history, issued, calls, log, pc, frame>>

\* APIKeyManager.get_user_by_key(api_key)
get_user_by_key(i, api_key) ==
    /\ ret' = [Ret("get_user_by_key", KeyKnown(keys[i], api_key), "") EXCEPT
                  !.name = UserOfKey(keys[i], api_key)]
    /\ UNCHANGED <<session, torn, now, users, usersFile, keys, keysFile, limits, limitsFile,
                   history, issued, calls, log, pc, frame>>

-----------------------------------------------------------------------------
(* Initial values *)

NoRet == [op |-> "none"]

\* main(): st.session_state before anybody has logged in (lines 941-946)
NoSession ==
    [authenticated |-> FALSE, username |-> None, user_tier |-> Some("guest")]

\* The locals of a thread that is not inside check_limit.
NoFrame == [inst |-> 1, user |-> "alice", tier |-> "guest", now |-> 0,
            had |-> 0, tmp |-> <<>>]

\* A window of n requests admitted at time 0.
Stamps(n) == [k \in 1..n |-> isoformat(0)]

InitCommon ==
    /\ now = 0
    /\ users = [i \in Insts |-> EmptyDict]
    /\ usersFile = EmptyDict
    /\ keys = [i \in Insts |-> EmptyDict]
    /\ keysFile = EmptyDict
    /\ history = [u \in Users |-> <<>>]
    /\ ret = NoRet
    /\ issued = EmptyDict
    /\ calls = 0
    /\ log = <<>>
    /\ pc = [t \in Threads |-> "idle"]
    /\ frame = [t \in Threads |-> NoFrame]
    /\ session = NoSession
    /\ torn = {}

-----------------------------------------------------------------------------
(* SpecRate: one RateLimiter object serving calls one after the other.     *)
(* rate_limits.json survives restarts, so the object is constructed over   *)
(* what earlier runs left.  For each user that is nothing, or the requests *)
(* that the guest or the user tier admitted at time 0 up to one below its  *)
(* limit, or 89 requests admitted one tick before time 0 and 10 at time 0  *)
(* (a user of the user tier, 99 requests in all).                          *)
(* (SpecBurst fills the window of every tier, pro included, call by call.) *)

\* A window of a requests admitted at time -1 and then b at time 0.
StampsAt(a, b) == [k \in 1..(a + b) |-> isoformat(IF k <= a THEN -1 ELSE 0)]

LeftBehind ==
    {<<0, 0>>, <<89, 10>>}
    \cup {<<0, GetLimit(tier) - 1>> : tier \in {"guest", "user"}}

InitRate ==
    /\ InitCommon
    /\ \E f \in [Users -> LeftBehind] :
          limitsFile = [u \in {x \in Users : f[x] # <<0, 0>>} |->
                           StampsAt(f[u][1], f[u][2])]
    /\ limits = [i \in Insts |-> limitsFile]

\* What the log keeps of a call: its arguments, the time, the length of the
\* caller's window when the call began, and what the call returned.
LogEntry(i, username, tier, t) ==
    LET out == CheckOutcome(i, username, tier, t)
    IN  [user |-> username, tier |-> tier, at |-> t,
         had |-> Len(Get(limits[i], username, <<>>)),
         ok |-> out.ok, n |-> out.n]

\* One request: check_limit, of which the log keeps the latest call only.
RateCall(i, username, tier) ==
    /\ calls < MaxCalls
    /\ calls' = calls + 1
    /\ check_limit(i, username, tier)
    /\ log' = <<LogEntry(i, username, tier, now)>>

NextRate ==
    \/ Tick
    \/ \E u \in Users, tier \in Tiers : RateCall(1, u, tier)
    \/ RateLimiterInit(1)

SpecRate == InitRate /\ [][NextRate]_vars

-----------------------------------------------------------------------------
(* Properties of RateLimiter.check_limit, one call after the other *)

\* The last call, when there is one.
Last == log[Len(log)]

\* now - timestamp < 1 hour, for a stored timestamp string
WithinHour(ts, t) == t - ts.iso < Hour

\* C3: immediately after every check_limit(username, tier) evaluated at time
\* now, admitted or rejected, every timestamp retained in that username's
\* window is less than one hour old (one exactly an hour old is gone), and
\* the timestamps of the old window that are less than one hour old are all
\* still there, in their order.
C3_WindowIsTrailingHour ==
    [][\A u \in Users, tier \in Tiers :
          RateCall(1, u, tier) =>
             LET old == Get(limits[1], u, <<>>)
                 new == limits'[1][u]
                 Young(ts) == WithinHour(ts, now)
                 young == SelectSeq(old, Young)
             IN  /\ \A k \in DOMAIN new : WithinHour(new[k], now)
                 /\ \A k \in DOMAIN new : new[k].iso <= now
                 /\ Len(young) <= Len(new)
                 /\ SubSeq(new, 1, Len(young)) = young]_vars

\* C3's case: a rejected call has just dropped timestamps exactly one hour
\* old (the file still has them) and kept the younger ones.
C3_Witness ==
    /\ log # <<>>
    /\ now = Last.at
    /\ ~Last.ok
    /\ Last.user \in DOMAIN limitsFile
    /\ \E k \in DOMAIN limitsFile[Last.user] :
          limitsFile[Last.user][k].iso = now - Hour
    /\ Last.had > Len(limits[1][Last.user])
    /\ \E k \in DOMAIN limits[1][Last.user] :
          limits[1][Last.user][k].iso = now - Hour + 1

\* C4: check_limit admits exactly when the pruned window holds fewer
\* timestamps than the tier's limit.  Admitted, it appends the one timestamp
\* now to the user's pruned window, writes the windows to the file and
\* reports limit - new count; rejected, it reports the limit, appends
\* nothing and leaves the file as it was.
C4_AdmitOrReject ==
    [][\A u \in Users, tier \in Tiers :
          RateCall(1, u, tier) =>
             LET old == Get(limits[1], u, <<>>)
                 new == limits'[1][u]
                 Young(ts) == WithinHour(ts, now)
                 pruned == SelectSeq(old, Young)
                 limit == GetLimit(tier)
             IN  /\ ret'.op = "check_limit"
                 /\ ret'.ok <=> Len(pruned) < limit
                 /\ ret'.ok =>
                       /\ new = Append(pruned, isoformat(now))
                       /\ limitsFile' = limits'[1]
                       /\ limitsFile'[u] = new
                       /\ ret'.msg = "Remaining"
                       /\ ret'.n = limit - Len(new)
                       /\ ret'.limit = limit
                 /\ ~ret'.ok =>
                       /\ new = pruned
                       /\ limitsFile' = limitsFile
                       /\ ret'.msg = "Rate limit exceeded"
                       /\ ret'.n = limit
                 /\ \A v \in DOMAIN limits[1] \ {u} :
                       limits'[1][v] = limits[1][v]]_vars

\* C4's case: a call is rejected right after the call that took the last
\* slot, and the file still holds the full window.
C4_Witness ==
    /\ log # <<>>
    /\ ~Last.ok
    /\ ~ret.ok
    /\ Last.had = GetLimit(Last.tier)
    /\ Len(limitsFile[Last.user]) = Last.had
    /\ calls >= 2

-----------------------------------------------------------------------------
(* SpecBurst: one user of one tier, starting from an empty window, sends a *)
(* burst of requests at one instant until the tier's limit is reached;     *)
(* only then does the clock move on.  The log keeps every call.            *)

InitBurst ==
    /\ InitCommon
    /\ limitsFile = EmptyDict
    /\ limits = [i \in Insts |-> EmptyDict]

BurstCall(u, tier) ==
    /\ log # <<>> => (log[1].user = u /\ log[1].tier = tier)
    /\ Len(log) < GetLimit(tier) + MaxExtra
    /\ check_limit(1, u, tier)
    /\ log' = Append(log, LogEntry(1, u, tier, now))
    /\ UNCHANGED calls

BurstTick ==
    /\ log # <<>>
    /\ Len(log) >= GetLimit(log[1].tier)
    /\ Tick

NextBurst ==
    \/ BurstTick
    \/ \E u \in Users, tier \in Tiers : BurstCall(u, tier)

SpecBurst == InitBurst /\ [][NextBurst]_vars

\* The limits the specification gives: guest 10, user 100, pro 1000 requests
\* per hour, and 10 for a tier it does not name.
TierLimit(tier) ==
    CASE tier = "guest" -> 10
      [] tier = "user" -> 100
      [] tier = "pro" -> 1000
      [] OTHER -> 10

\* C2: from an empty window, the first L calls of a user of a tier with limit
\* L, made at one instant, are all admitted and report L-1, L-2, ..., 0
\* remaining; call L+1 within the same hour is rejected; a call made more
\* than one hour after the first admitted request is admitted again.
C2_BurstThenReject ==
    log # <<>> =>
       LET L == TierLimit(log[1].tier)
           first == log[1].at
       IN  \A k \in DOMAIN log :
              /\ (k <= L /\ log[k].at = first) =>
                    (log[k].ok /\ log[k].n = L - k)
              /\ (k = L + 1 /\ log[k].at - first < Hour) =>
                    (~log[k].ok /\ log[k].n = L)
              /\ (k > L /\ log[k].at - first > Hour) => log[k].ok

\* C2's case: a pro user has made 1000 admitted calls, the 1001st was
\* rejected, and the 1002nd, over an hour after the first, was admitted.
C2_Witness ==
    /\ Len(log) = 1002
    /\ log[1].tier = "pro"
    /\ log[1000].ok /\ log[1000].n = 0 /\ log[1000].at = log[1].at
    /\ ~log[1001].ok
    /\ log[1002].ok /\ log[1002].at - log[1].at > Hour

-----------------------------------------------------------------------------
(* SpecRace: two request threads inside check_limit at once, for one user  *)
(* of one tier whose window has a single slot left.  Each thread calls     *)
(* check_limit on a RateLimiter object, the same one or one each; both     *)
(* objects loaded rate_limits.json when they were constructed.  The code   *)
(* takes no lock, so the threads interleave between its statements.  The   *)
(* log starts with the limit - 1 requests admitted at time 0.  The tiers   *)
(* are those with limits 10 and 100; pro differs only in its 999 earlier   *)
(* requests.                                                               *)

RaceTiers == {"guest", "user", "trial"}

Earlier(u, tier, n) ==
    [k \in 1..n |-> [user |-> u, tier |-> tier, at |-> 0, had |-> k - 1,
                     ok |-> TRUE, n |-> GetLimit(tier) - k]]

InitRace ==
    /\ now = 0
    /\ users = [i \in Insts |-> EmptyDict]
    /\ usersFile = EmptyDict
    /\ keys = [i \in Insts |-> EmptyDict]
    /\ keysFile = EmptyDict
    /\ history = [u \in Users |-> <<>>]
    /\ ret = NoRet
    /\ issued = EmptyDict
    /\ calls = 0
    /\ pc = [t \in Threads |-> "idle"]
    /\ frame = [t \in Threads |-> NoFrame]
    /\ session = NoSession
    /\ torn = {}
    /\ \E u \in Users, tier \in RaceTiers :
          /\ limitsFile = [x \in {u} |-> Stamps(GetLimit(tier) - 1)]
          /\ log = Earlier(u, tier, GetLimit(tier) - 1)
    /\ limits = [i \in Insts |-> limitsFile]

ThreadFrame(t) ==
    UNCHANGED <<session, torn, now, users, usersFile, keys, keysFile, history, issued, calls>>

\* lines 253-256: the call begins and reads the clock
Begin(t, i) ==
    /\ pc[t] = "idle"
    /\ pc' = [pc EXCEPT ![t] = "ensure"]
    /\ frame' = [frame EXCEPT ![t] =
                    [inst |-> i, user |-> log[1].user, tier |-> log[1].tier,
                     now |-> now,
                     had |-> Len(Get(limits[i], log[1].user, <<>>)),
                     tmp |-> <<>>]]
    /\ UNCHANGED <<limits, limitsFile, ret, log>>
    /\ ThreadFrame(t)

\* lines 258-259: if username not in self.limits: self.limits[username] = []
Ensure(t) ==
    LET f == frame[t]
    IN  /\ pc[t] = "ensure"
        /\ pc' = [pc EXCEPT ![t] = "filter"]
        /\ limits' = [limits EXCEPT ![f.inst] =
                         IF f.user \in DOMAIN @ THEN @ ELSE Put(@, f.user, <<>>)]
        /\ UNCHANGED <<frame, limitsFile, ret, log>>
        /\ ThreadFrame(t)

\* lines 263-265: the list comprehension builds the pruned list
FilterStep(t) ==
    LET f == frame[t]
    IN  /\ pc[t] = "filter"
        /\ pc' = [pc EXCEPT ![t] = "assign"]
        /\ frame' = [frame EXCEPT ![t].tmp = Prune(limits[f.inst][f.user], f.now)]
        /\ UNCHANGED <<limits, limitsFile, ret, log>>
        /\ ThreadFrame(t)

\* line 262: self.limits[username] = <the pruned list>
Assign(t) ==
    LET f == frame[t]
    IN  /\ pc[t] = "assign"
        /\ pc' = [pc EXCEPT ![t] = "check"]
        /\ limits' = [limits EXCEPT ![f.inst] = Put(@, f.user, f.tmp)]
        /\ frame' = [frame EXCEPT ![t].tmp = <<>>]
        /\ UNCHANGED <<limitsFile, ret, log>>
        /\ ThreadFrame(t)

\* lines 268-270: over the limit, return False with the limit
Check(t) ==
    LET f == frame[t]
        limit == GetLimit(f.tier)
        ok == Admits(Len(limits[f.inst][f.user]), limit)
    IN  /\ pc[t] = "check"
        /\ pc' = [pc EXCEPT ![t] = IF ok THEN "append" ELSE "done"]
        /\ ret' = IF ok THEN ret ELSE RetLimit(FALSE, limit, limit)
        /\ log' = IF ok THEN log
                  ELSE Append(log, [user |-> f.user, tier |-> f.tier,
                                    at |-> f.now, had |-> f.had,
                                    ok |-> FALSE, n |-> limit])
        /\ UNCHANGED <<frame, limits, limitsFile>>
        /\ ThreadFrame(t)

\* line 273: self.limits[username].append(now.isoformat())
AppendStep(t) ==
    LET f == frame[t]
    IN  /\ pc[t] = "append"
        /\ pc' = [pc EXCEPT ![t] = "save"]
        /\ limits' = [limits EXCEPT ![f.inst][f.user] = Append(@, isoformat(f.now))]
        /\ UNCHANGED <<frame, limitsFile, ret, log>>
        /\ ThreadFrame(t)

\* line 274: self._save_limits()
Save(t) ==
    LET f == frame[t]
    IN  /\ pc[t] = "save"
        /\ pc' = [pc EXCEPT ![t] = "return"]
        /\ limitsFile' = limits[f.inst]
        /\ UNCHANGED <<frame, limits, ret, log>>
        /\ ThreadFrame(t)

\* line 276: return True with limit - len(self.limits[username])
Return(t) ==
    LET f == frame[t]
        limit == GetLimit(f.tier)
        n == Remaining(Len(limits[f.inst][f.user]), limit)
    IN  /\ pc[t] = "return"
        /\ pc' = [pc EXCEPT ![t] = "done"]
        /\ ret' = RetLimit(TRUE, n, limit)
        /\ log' = Append(log, [user |-> f.user, tier |-> f.tier, at |-> f.now,
                               had |-> f.had, ok |-> TRUE, n |-> n])
        /\ UNCHANGED <<frame, limits, limitsFile>>
        /\ ThreadFrame(t)

NextRace ==
    \/ Tick
    \/ \E t \in Threads, i \in Insts : Begin(t, i)
    \/ \E t \in Threads : Ensure(t)
    \/ \E t \in Threads : FilterStep(t)
    \/ \E t \in Threads : Assign(t)
    \/ \E t \in Threads : Check(t)
    \/ \E t \in Threads : AppendStep(t)
    \/ \E t \in Threads : Save(t)
    \/ \E t \in Threads : Return(t)

SpecRace == InitRace /\ [][NextRace]_vars

\* The calls of the log admitted with a timestamp in the hour that starts at s.
AdmittedInHour(s) ==
    {k \in DOMAIN log : log[k].ok /\ s <= log[k].at /\ log[k].at < s + Hour}

\* C1: with one slot left in the user's window, two concurrent check_limit
\* calls for that user (on one RateLimiter object or on two) are never both
\* admitted, and the admitted requests whose timestamps lie in any one hour
\* never outnumber the tier's limit.
C1_AtMostLimitPerHour ==
    /\ \A s \in 0..MaxTime :
          Cardinality(AdmittedInHour(s)) <= TierLimit(log[1].tier)
    /\ LET L == TierLimit(log[1].tier)
           mine == {k \in DOMAIN log : k >= L}
       IN  (\A k \in mine : log[k].at < Hour) =>
              Cardinality({k \in mine : log[k].ok}) <= 1

-----------------------------------------------------------------------------
(* Spec: one UserManager object serving calls one after the other, over a  *)
(* users.json that does not exist yet.                                     *)

Init ==
    /\ InitCommon
    /\ limitsFile = EmptyDict
    /\ limits = [i \in Insts |-> EmptyDict]

\* The clock of the account and the API-key specifications.
StampTick == now < MaxStamp /\ Tick

Next ==
    \/ StampTick
    \/ UserManagerInit(1)
    \/ \E u \in Users, p \in Passwords, e \in Emails : register_user(1, u, p, e)
    \/ \E u \in Users, p \in Passwords : authenticate_user(1, u, p)
    \/ \E u \in Users, upd \in Updates : update_user(1, u, upd)

Spec == Init /\ [][Next]_vars

C6_ExtendedPasswordRejected ==
    \A u \in DOMAIN users[1], p \in Passwords :
       ~(/\ AuthResult(users[1], u, p) = "True"
         /\ AuthResult(users[1], u, PlusX(p)) = "True")

\* C10: after any sequence of register_user and update_user calls, the
\* 'password' field of every account in users.json is a salted one-way hash
\* and is no password a caller supplied.
C10_PasswordNeverPlaintext ==
    \A u \in DOMAIN usersFile :
       /\ usersFile[u].password.kind = "bcrypt"
       /\ usersFile[u].password.salt \in Salts
       /\ \A p \in Passwords : usersFile[u].password # Plain(p)

-----------------------------------------------------------------------------
(* SpecKeys: one APIKeyManager and one UserManager object serving calls    *)
(* one after the other: keys are issued and presented, accounts are        *)
(* registered (with one password and one address) and read.                *)

NextKeys ==
    \/ StampTick
    \/ APIKeyManagerInit(1)
    \/ \E u \in Users : generate_key(1, u)
    \/ \E s \in Presented : validate_key(1, s)
    \/ \E s \in Presented : get_user_by_key(1, s)
    \/ register_user(1, "alice", Rep("a", 8), "a@x.org")
    \/ \E u \in Users : get_user(1, u)

SpecKeys == Init /\ [][NextKeys]_vars

\* C7: every raw key generate_key has returned resolves, through
\* get_user_by_key, to the username it was issued to, and validate_key
\* accepts it, however many keys were issued after it; a string generate_key
\* never returned, the stored hash of a key included, resolves to None and
\* is not accepted.
C7_IssuedKeysResolve ==
    /\ \A k \in DOMAIN issued :
          /\ UserOfKey(keys[1], k) = Some(issued[k])
          /\ KeyKnown(keys[1], k)
    /\ \A s \in Presented \ DOMAIN issued :
          /\ UserOfKey(keys[1], s) = None
          /\ ~KeyKnown(keys[1], s)
    /\ ret.op = "get_user_by_key" =>
          \/ ret.name = None
          \/ \E k \in DOMAIN issued : ret.name = Some(issued[k])

\* C7's case: every key has been issued, two of them to one user, and the
\* stored hash of a key has just been presented and resolved to None.
C7_Witness ==
    /\ Cardinality(DOMAIN issued) = NumKeys
    /\ \E k1, k2 \in DOMAIN issued : k1 # k2 /\ issued[k1] = issued[k2]
    /\ ret.op = "get_user_by_key"
    /\ ret.name = None
    /\ DOMAIN keysFile # {}

\* C8: validate_key and get_user_by_key, for any presented string, leave
\* the key store (in memory and in the file), the accounts, the rate windows
\* and the histories as they were.
C8_LookupsArePure ==
    [][\A s \in Presented :
          ((ret'.op = "validate_key" /\ validate_key(1, s))
           \/ (ret'.op = "get_user_by_key" /\ get_user_by_key(1, s)))
          => UNCHANGED <<keys, keysFile, users, usersFile, limits, limitsFile,
                         history>>]_vars

\* C8's case: a key that was never issued has just been presented to
\* validate_key while keys and accounts are stored.
C8_Witness ==
    /\ ret.op = "validate_key"
    /\ ~ret.ok
    /\ DOMAIN keysFile # {}
    /\ DOMAIN usersFile # {}

\* The raw keys a returned value holds.
KeysIn(r) ==
    IF r.op \in {"none", "check_limit"} THEN {}
    ELSE {r.key[k] : k \in DOMAIN r.key}
         \cup UNION {
                {r.acct[a].api_key[k] : k \in DOMAIN r.acct[a].api_key} :
                   a \in DOMAIN r.acct}

\* No raw key is in api_keys.json or users.json.
NoRawKeyStored ==
    /\ \A h \in DOMAIN keysFile :
          /\ h.h = 1
          /\ h \notin DOMAIN issued
          /\ DOMAIN keysFile[h] = {"username", "created_at"}
          /\ keysFile[h].username \in Users
    /\ \A u \in DOMAIN usersFile, k \in DOMAIN issued :
          usersFile[u].api_key # Some(k)

\* C9: no raw API key is in a durable store: api_keys.json is keyed by the
\* hashes of the keys and its entries hold a username and a creation time
\* only, and no account's 'api_key' field holds a raw key.  A call returns a
\* raw key only if the key was not issued before the call: generate_key
\* returns the key it creates, and nothing returns it again.
C9_RawKeyNeverKept ==
    /\ []NoRawKeyStored
    /\ [][ret' # ret => KeysIn(ret') \cap DOMAIN issued = {}]_vars

\* C9's case: a key was issued to a registered user, and a later get_user
\* has just returned that user's account.
C9_Witness ==
    /\ ret.op = "get_user"
    /\ ret.acct # None
    /\ \E k \in DOMAIN issued : issued[k] \in DOMAIN usersFile
    /\ DOMAIN keysFile # {}

-----------------------------------------------------------------------------
(* HistoryManager *)

\* history[-100:]
KeepLast == 100
\* query[:200]
QueryMax == 200
\* str(result)[:500]
ResultMax == 500
\* get_history(username, limit=1000) in get_analytics
AnalyticsLimit == 1000

Day == 24 * Hour

\* Python's s[:n] for n >= 0
SliceTo(s, n) == SubSeq(s, 1, IF Len(s) < n THEN Len(s) ELSE n)

\* Python's s[-n:] for n >= 0.  The start index is -n: a negative start
\* counts from the end and is clamped to the beginning, and -0 is 0, the
\* beginning.
SliceLast(s, n) ==
    LET start == IF -n < 0
                 THEN (IF Len(s) - n < 0 THEN 0 ELSE Len(s) - n)
                 ELSE 0
    IN  SubSeq(s, start + 1, Len(s))

\* What a tool returns: an object with the text str() gives for it.
ToolResult(text) == [repr |-> text]

\* str(result)
str(result) == result.repr

\* A bug the code does not have: the query is stored whole.
QueryStoredWhole(query) == query

\* query[:200]
TruncateQuery(query) == SliceTo(query, QueryMax)

\* str(result)[:500]
TruncateResult(result) == SliceTo(str(result), ResultMax)

\* The entry add_entry builds (lines 137-142).
Entry(t, tool, query, result) ==
    [timestamp |-> isoformat(t),
     tool |-> tool,
     query |-> TruncateQuery(query),
     result |-> TruncateResult(result)]

\* A bug the code does not have: the oldest 100 entries are kept.
TrimKeepsOldest(h) == SliceTo(h, KeepLast)

\* history = history[-100:]
Trim(h) == SliceLast(h, KeepLast)

\* What a HistoryManager call returns.
RetHistory(op, ok, msg, list) ==
    [op |-> op, ok |-> ok, msg |-> msg, name |-> None, key |-> None,
     acct |-> None, list |-> list]

\* HistoryManager.add_entry(username, tool, query, result): the file is
\* loaded, the entry appended, the list trimmed and the file written.
\* json.load raises on a file that is not whole, before anything is written.
\* The callers' bookkeeping (calls, log) is left to the caller.
add_entry(username, tool, query, result) ==
    /\ IF Unreadable(HistoryFileName(username))
       THEN /\ ret' = RetHistory("add_entry", FALSE, "JSONDecodeError", <<>>)
            /\ UNCHANGED history
       ELSE /\ history' = [history EXCEPT ![username] =
                   Trim(Append(@, Entry(now, tool, query, result)))]
            /\ ret' = RetHistory("add_entry", TRUE, "", <<>>)
    /\ UNCHANGED <<now, users, usersFile, keys, keysFile, limits, limitsFile,
                   issued, pc, frame, session, torn>>

\* history[-limit:]
LastEntries(h, limit) == SliceLast(h, limit)

\* What get_history(username, limit) returns: [] when the file does not
\* exist, else the tail of the loaded list.
HistoryOf(username, limit) ==
    IF history[username] = <<>> THEN <<>>
    ELSE LastEntries(history[username], limit)

\* HistoryManager.get_history(username, limit)
get_history(username, limit) ==
    /\ IF Unreadable(HistoryFileName(username))
       THEN ret' = RetHistory("get_history", FALSE, "JSONDecodeError", <<>>)
       ELSE ret' = RetHistory("get_history", TRUE, "",
                              HistoryOf(username, limit))
    /\ UNCHANGED <<now, users, usersFile, keys, keysFile, limits, limitsFile,
                   history, issued, pc, frame, session, torn>>

\* pd.to_datetime of an isoformat string
to_datetime(s) == fromisoformat(s)

\* Timestamp.date(): the calendar day a time falls on
date(t) == t \div Day

\* A bug the code does not have: analytics over get_history's default limit.
AnalyticsHistoryDefaultLimit(username) == HistoryOf(username, 50)

\* history = self.get_history(username, limit=1000)
AnalyticsHistory(username) == HistoryOf(username, AnalyticsLimit)

\* The dict get_analytics builds from the entries h at time t (lines 174-180).
Analytics(h, t) ==
    LET rows == DOMAIN h
        when(k) == to_datetime(h[k].timestamp)
    IN  [total_queries |-> Len(h),
         tools_used |->
            [tool \in {h[k].tool : k \in rows} |->
                Cardinality({k \in rows : h[k].tool = tool})],
         queries_by_date |->
            [d \in {date(when(k)) : k \in rows} |->
                Cardinality({k \in rows : date(when(k)) = d})],
         last_7_days |-> Cardinality({k \in rows : when(k) > t - 7 * Day}),
         last_30_days |-> Cardinality({k \in rows : when(k) > t - 30 * Day})]

\* HistoryManager.get_analytics(username): None if not history
get_analytics(username) ==
    /\ IF Unreadable(HistoryFileName(username))
       THEN ret' = RetHistory("get_analytics", FALSE, "JSONDecodeError", None)
       ELSE LET h == AnalyticsHistory(username)
            IN  ret' = RetHistory("get_analytics", TRUE, "",
                          IF h = <<>> THEN None ELSE Some(Analytics(h, now)))
    /\ UNCHANGED <<now, users, usersFile, keys, keysFile, limits, limitsFile,
                   history, issued, pc, frame, session, torn>>

-----------------------------------------------------------------------------
(* SpecHistory: HistoryManager calls, one after the other, on history files *)
(* that earlier requests left behind                                        *)

\* add_entry calls explored after the initial state.
MaxAdds == 2

\* The (username, tool, query, result) arguments the tool pages pass to
\* add_entry: a short query and result, and a long query with a long result.
ToolInputs ==
    {<<"alice", "sentiment_analysis", Rep("q", 3), ToolResult(Rep("r", 5))>>,
     <<"bob", "sentiment_analysis", Rep("q", 3), ToolResult(Rep("r", 5))>>,
     <<"alice", "text_summarization", Rep("q", 300),
       ToolResult(Rep("r", 600))>>}

\* The limits callers pass to get_history.
HistoryLimits == {0, 2, AnalyticsLimit}

\* The k-th of n entries appended before time 0, one every half day, the
\* last of them half a day ago.
OldEntry(k, n) ==
    Entry((k - n - 1) * (Day \div 2),
          IF k % 3 = 0 THEN "text_summarization" ELSE "sentiment_analysis",
          Rep("q", 3), ToolResult(Rep("r", 5)))

OldHistory(n) == [k \in 1..n |-> OldEntry(k, n)]

\* Lengths of the history files found at the start.
OldLengths == {0, 3, KeepLast - 1}

InitHistory ==
    /\ now = 0
    /\ users = [i \in Insts |-> EmptyDict]
    /\ usersFile = EmptyDict
    /\ keys = [i \in Insts |-> EmptyDict]
    /\ keysFile = EmptyDict
    /\ limits = [i \in Insts |-> EmptyDict]
    /\ limitsFile = EmptyDict
    /\ ret = NoRet
    /\ issued = EmptyDict
    /\ calls = 0
    /\ log = <<>>
    /\ pc = [t \in Threads |-> "idle"]
    /\ frame = [t \in Threads |-> NoFrame]
    /\ session = NoSession
    /\ torn = {}
    /\ \E n \in OldLengths :
          history = [u \in Users |->
                        IF u = "alice" THEN OldHistory(n) ELSE <<>>]

HistoryAdd(username, tool, query, result) ==
    /\ calls < MaxAdds
    /\ calls' = calls + 1
    /\ add_entry(username, tool, query, result)
    /\ log' = <<[user |-> username, tool |-> tool, query |-> query,
                 result |-> result, at |-> now]>>

HistoryGet(username, limit) ==
    /\ get_history(username, limit)
    /\ UNCHANGED <<calls, log>>

HistoryAnalytics(username) ==
    /\ get_analytics(username)
    /\ UNCHANGED <<calls, log>>

NextHistory ==
    \/ StampTick
    \/ \E in \in ToolInputs : HistoryAdd(in[1], in[2], in[3], in[4])
    \/ \E u \in Users, limit \in HistoryLimits : HistoryGet(u, limit)
    \/ \E u \in Users : HistoryAnalytics(u)

SpecHistory == InitHistory /\ [][NextHistory]_vars

-----------------------------------------------------------------------------
(* Properties of HistoryManager *)

\* The last n elements of s, all of s when it has fewer.
LastN(s, n) ==
    LET m == IF Len(s) < n THEN Len(s) ELSE n
    IN  [k \in 1..m |-> s[Len(s) - m + k]]

\* The first n elements of s, all of s when it has fewer.
FirstN(s, n) ==
    LET m == IF Len(s) < n THEN Len(s) ELSE n
    IN  [k \in 1..m |-> s[k]]

\* C11: a user's stored history never has more than 100 entries, and every
\* add_entry leaves the last min(n, 100) of the entries appended so far, in
\* the order they were appended: below 100 entries the new entry is added at
\* the end and nothing is dropped; at 100 entries the new entry is added at
\* the end and the first (oldest) entry, and no other, is dropped.
C11_KeepsLastHundred ==
    /\ [](\A u \in Users : Len(history[u]) <= 100)
    /\ [][calls' = calls + 1 =>
            LET u == log'[1].user
                old == history[u]
                new == history'[u]
                e == new[Len(new)]
            IN  /\ ret'.ok
                /\ Len(new) >= 1
                /\ e.timestamp = isoformat(log'[1].at)
                /\ e.tool = log'[1].tool
                /\ new = LastN(Append(old, e), 100)
                /\ Len(old) < 100 => new = Append(old, e)
                /\ Len(old) = 100 => new = Append(Tail(old), e)
                /\ \A v \in Users \ {u} : history'[v] = history[v]]_vars

\* C11's case: the 101st entry has been appended to a history, and another
\* one after it: 100 entries are stored, the last two are the new ones.
C11_Witness ==
    /\ ret.op = "add_entry"
    /\ calls = MaxAdds
    /\ \E u \in Users :
          /\ Len(history[u]) = 100
          /\ \A k \in {99, 100} : to_datetime(history[u][k].timestamp) >= 0

\* C12: every stored entry has a query of at most 200 and a result of at
\* most 500 characters: add_entry stores the first 200 characters of the
\* query and the first 500 of str(result); a query of 300 and a result of
\* 600 characters are stored with 200 and 500, shorter ones as they are.
C12_EntriesTruncated ==
    /\ [](\A u \in Users : \A k \in DOMAIN history[u] :
             /\ Len(history[u][k].query) <= 200
             /\ Len(history[u][k].result) <= 500)
    /\ [][calls' = calls + 1 =>
            LET new == history'[log'[1].user]
                e == new[Len(new)]
                q == log'[1].query
                r == log'[1].result.repr
            IN  /\ e.query = FirstN(q, 200)
                /\ e.result = FirstN(r, 500)
                /\ Len(q) <= 200 => e.query = q
                /\ Len(r) <= 500 => e.result = r
                /\ (Len(q) = 300 /\ Len(r) = 600) =>
                      (Len(e.query) = 200 /\ Len(e.result) = 500)]_vars

\* C12's case: a query of 300 characters and a result of 600 have just been
\* appended and are stored with 200 and 500.
C12_Witness ==
    /\ ret.op = "add_entry"
    /\ log # <<>>
    /\ Len(log[1].query) = 300
    /\ Len(log[1].result.repr) = 600
    /\ LET h == history[log[1].user]
       IN  Len(h[Len(h)].query) = 200 /\ Len(h[Len(h)].result) = 500

\* C13: for every username and every limit >= 0, limit = 0 included,
\* get_history returns at most limit entries, the most recently appended
\* ones, oldest of them first; it returns the empty list for a user without
\* history; and it leaves the stored histories as they are.
C13_HistoryTail ==
    [][\A u \in Users, limit \in HistoryLimits :
          (ret'.op = "get_history" /\ HistoryGet(u, limit)) =>
             /\ Len(ret'.list) <= limit
             /\ ret'.list = LastN(history[u], limit)
             /\ history[u] = <<>> => ret'.list = <<>>
             /\ history' = history]_vars

RECURSIVE SumOver(_, _)
\* The sum of f[x] over the x in S.
SumOver(f, S) ==
    IF S = {} THEN 0
    ELSE LET x == CHOOSE y \in S : TRUE
         IN  f[x] + SumOver(f, S \ {x})

\* C14: get_analytics returns None exactly when the user has no stored
\* history.  Otherwise total_queries is the number of stored entries; the
\* per-tool counts have one key per distinct tool and sum to total_queries;
\* the per-date counts have one key per distinct calendar date and sum to
\* total_queries; last_7_days <= last_30_days <= total_queries.  The stored
\* histories are left as they are.
C14_AnalyticsTotals ==
    [][\A u \in Users :
          (ret'.op = "get_analytics" /\ HistoryAnalytics(u)) =>
             LET h == history[u]
                 a == ret'.list
             IN  /\ ret'.ok
                 /\ (a = None) <=> (h = <<>>)
                 /\ a # None =>
                      /\ a[1].total_queries = Len(h)
                      /\ DOMAIN a[1].tools_used =
                            {h[k].tool : k \in DOMAIN h}
                      /\ SumOver(a[1].tools_used, DOMAIN a[1].tools_used)
                            = a[1].total_queries
                      /\ DOMAIN a[1].queries_by_date =
                            {h[k].timestamp.iso \div Day : k \in DOMAIN h}
                      /\ SumOver(a[1].queries_by_date,
                                 DOMAIN a[1].queries_by_date)
                            = a[1].total_queries
                      /\ a[1].last_7_days <= a[1].last_30_days
                      /\ a[1].last_30_days <= a[1].total_queries
                 /\ history' = history]_vars

\* C14's case: analytics have just been computed over a history of 100
\* entries made with two tools on many dates, some of them older than seven
\* and some older than thirty days.
C14_Witness ==
    /\ ret.op = "get_analytics"
    /\ ret.list # None
    /\ ret.list[1].total_queries = 100
    /\ Cardinality(DOMAIN ret.list[1].tools_used) = 2
    /\ Cardinality(DOMAIN ret.list[1].queries_by_date) > 30
    /\ 0 < ret.list[1].last_7_days
    /\ ret.list[1].last_7_days < ret.list[1].last_30_days
    /\ ret.list[1].last_30_days < ret.list[1].total_queries

-----------------------------------------------------------------------------
(* SpecShared: two request handlers at once.  Every page handler constructs *)
(* its own manager object (UserManager() at lines 375 and 415,              *)
(* APIKeyManager() at line 898, HistoryManager() at line 458), which loads  *)
(* the file; the handler's call then changes the object's dict and dumps    *)
(* it.  Nothing locks a file, so the steps of two handlers interleave.      *)

\* Calls that write explored after the initial state.
MaxWrites == 2

\* What signup request i submits: its own password and address.
SignupPassword(i) == IF i = 1 THEN Rep("a", 8) ELSE PlusX(Rep("a", 8))
SignupEmail(i) == IF i = 1 THEN "a@x.org" ELSE "b@x.org"

\* A write that a handler completed: the store, the username, the handler.
Written(store, username, i) == [store |-> store, user |-> username, inst |-> i]

\* signup_page: user_manager.register_user(username, password, email) on the
\* UserManager the handler constructed
SharedRegister(i, username) ==
    /\ calls < MaxWrites
    /\ calls' = calls + 1
    /\ Register(i, username, SignupPassword(i), SignupEmail(i))
    /\ log' = IF ret'.ok THEN Append(log, Written("users", username, i))
              ELSE log
    /\ UNCHANGED <<now, keys, keysFile, limits, limitsFile, history, issued,
                   pc, frame, session, torn>>

\* settings_page: api_manager.generate_key(username)
SharedGenerate(i, username) ==
    /\ calls < MaxWrites
    /\ calls' = calls + 1
    /\ Generate(i, username)
    /\ log' = Append(log, Written("keys", username, i))
    /\ UNCHANGED <<now, users, usersFile, limits, limitsFile, history, pc,
                   frame, session, torn>>

\* RateLimiter.check_limit(username, 'guest') on the handler's RateLimiter
SharedCheck(i, username) ==
    /\ calls < MaxWrites
    /\ calls' = calls + 1
    /\ check_limit(i, username, "guest")
    /\ log' = IF ret'.ok THEN Append(log, Written("limits", username, i))
              ELSE log

\* add_entry, lines 127-134: the handler loads the history file.
AddLoad(t, username) ==
    /\ pc[t] = "idle"
    /\ calls < MaxWrites
    /\ ~Unreadable(HistoryFileName(username))
    /\ pc' = [pc EXCEPT ![t] = "loaded"]
    /\ frame' = [frame EXCEPT ![t] =
                    [NoFrame EXCEPT !.inst = t, !.user = username,
                                    !.now = now, !.tmp = history[username]]]
    /\ calls' = calls + 1
    /\ UNCHANGED <<now, users, usersFile, keys, keysFile, limits, limitsFile,
                   history, ret, issued, log, session, torn>>

\* add_entry, lines 136-150: the entry is appended to the list that was
\* loaded, the list is trimmed and written over the file.
AddStore(t) ==
    /\ pc[t] = "loaded"
    /\ history' = [history EXCEPT ![frame[t].user] =
          Trim(Append(frame[t].tmp,
                      Entry(now, "sentiment_analysis", Rep("q", 3),
                            ToolResult(Rep("r", 5)))))]
    /\ ret' = RetHistory("add_entry", TRUE, "", <<>>)
    /\ log' = Append(log, Written("history", frame[t].user, t))
    /\ pc' = [pc EXCEPT ![t] = "idle"]
    /\ UNCHANGED <<now, users, usersFile, keys, keysFile, limits, limitsFile,
                   issued, calls, frame, session, torn>>

NextShared ==
    \/ \E i \in Insts : UserManagerInit(i)
    \/ \E i \in Insts : APIKeyManagerInit(i)
    \/ \E i \in Insts : RateLimiterInit(i)
    \/ \E i \in Insts, u \in Users : SharedRegister(i, u)
    \/ \E i \in Insts, u \in Users : SharedGenerate(i, u)
    \/ \E i \in Insts, u \in Users : SharedCheck(i, u)
    \/ \E t \in Threads, u \in Users : AddLoad(t, u)
    \/ \E t \in Threads : AddStore(t)

SpecShared == Init /\ [][NextShared]_vars

\* The writes to a store for a username that handlers have completed.
WritesTo(store, username) ==
    {k \in DOMAIN log : log[k].store = store /\ log[k].user = username}

\* C15: no write is lost.  Whatever the interleaving of two handlers, each
\* with the manager object it constructed, the files hold the effect of
\* every completed write: every registered account is in users.json, every
\* issued key's hash is in api_keys.json, every admitted request's timestamp
\* is in rate_limits.json (the clock is at rest, nothing is an hour old) and
\* every appended entry is in the user's history file.
C15_NoLostUpdates ==
    /\ \A u \in Users : WritesTo("users", u) # {} => u \in DOMAIN usersFile
    /\ \A k \in DOMAIN issued : sha256(k) \in DOMAIN keysFile
    /\ \A u \in Users :
          Len(Get(limitsFile, u, <<>>)) = Cardinality(WritesTo("limits", u))
    /\ \A u \in Users :
          Len(history[u]) = Cardinality(WritesTo("history", u))

\* C20: of two signup requests for one username, each through the
\* UserManager it constructed, at most one is told it succeeded, and the
\* password hash and address stored for a username are never replaced.
C20_OneRegistrant ==
    /\ [](\A u \in Users : Cardinality(WritesTo("users", u)) <= 1)
    /\ [][\A u \in (DOMAIN usersFile) \cap (DOMAIN usersFile') :
             /\ usersFile'[u].password = usersFile[u].password
             /\ usersFile'[u].email = usersFile[u].email]_vars

-----------------------------------------------------------------------------
(* SpecCrash: requests that save, step by step, and a process that may die. *)
(* A request constructs its manager (which loads the file), changes the     *)
(* dict and saves it: open(file, 'w') truncates the file, json.dump then    *)
(* writes the text.  Between the two the file is no JSON text.              *)

\* Requests explored after the initial state.
MaxSaves == 3

\* signup_page: UserManager() and register_user, up to the save.
SignupBegin(t, username) ==
    /\ pc[t] = "idle"
    /\ calls < MaxSaves
    /\ calls' = calls + 1
    /\ IF Unreadable(UsersFileName)
       THEN /\ ret' = RetRaised("UserManager")
            /\ UNCHANGED <<users, pc>>
       ELSE IF UsernameTaken(load_users, username)
       THEN /\ ret' = Ret("register_user", FALSE, "Username already exists")
            /\ users' = [users EXCEPT ![t] = load_users]
            /\ UNCHANGED pc
       ELSE /\ \E salt \in Salts :
                  users' = [users EXCEPT ![t] =
                     Put(load_users, username,
                         NewAccount(SignupPassword(t), salt, SignupEmail(t),
                                    now))]
            /\ pc' = [pc EXCEPT ![t] = "open_users"]
            /\ UNCHANGED ret
    /\ UNCHANGED <<now, usersFile, keys, keysFile, limits, limitsFile, history,
                   issued, log, frame, session, torn>>

\* settings_page: APIKeyManager() and generate_key, up to the save.
GenerateBegin(t, username) ==
    /\ pc[t] = "idle"
    /\ calls < MaxSaves
    /\ calls' = calls + 1
    /\ IF Unreadable(KeysFileName)
       THEN /\ ret' = RetRaised("APIKeyManager")
            /\ UNCHANGED <<keys, issued, pc>>
       ELSE /\ \E id \in 1..NumKeys :
                  /\ RawKey(id) \notin DOMAIN issued
                  /\ keys' = [keys EXCEPT ![t] =
                        StoreKey(load_keys, sha256(RawKey(id)),
                                 KeyEntry(username, RawKey(id), now))]
                  /\ issued' = Put(issued, RawKey(id), username)
            /\ pc' = [pc EXCEPT ![t] = "open_keys"]
            /\ UNCHANGED ret
    /\ UNCHANGED <<now, users, usersFile, keysFile, limits, limitsFile,
                   history, log, frame, session, torn>>

\* RateLimiter() and check_limit(username, 'guest'), up to the save.
CheckBegin(t, username) ==
    /\ pc[t] = "idle"
    /\ calls < MaxSaves
    /\ calls' = calls + 1
    /\ IF Unreadable(LimitsFileName)
       THEN /\ ret' = RetRaised("RateLimiter")
            /\ UNCHANGED <<limits, pc>>
       ELSE LET pruned == Prune(Get(load_limits, username, <<>>), now)
                limit == GetLimit("guest")
            IN  IF Admits(Len(pruned), limit)
                THEN /\ limits' = [limits EXCEPT ![t] =
                           Put(load_limits, username,
                               Append(pruned, isoformat(now)))]
                     /\ pc' = [pc EXCEPT ![t] = "open_limits"]
                     /\ UNCHANGED ret
                ELSE /\ limits' = [limits EXCEPT ![t] =
                           Put(load_limits, username, pruned)]
                     /\ ret' = RetLimit(FALSE, limit, limit)
                     /\ UNCHANGED pc
    /\ UNCHANGED <<now, users, usersFile, keys, keysFile, limitsFile, history,
                   issued, log, frame, session, torn>>

\* A tool page: HistoryManager().add_entry, up to the save.
AddBegin(t, username) ==
    /\ pc[t] = "idle"
    /\ calls < MaxSaves
    /\ calls' = calls + 1
    /\ IF Unreadable(HistoryFileName(username))
       THEN /\ ret' = RetHistory("add_entry", FALSE, "JSONDecodeError", <<>>)
            /\ UNCHANGED <<frame, pc>>
       ELSE /\ frame' = [frame EXCEPT ![t] =
                  [NoFrame EXCEPT !.inst = t, !.user = username, !.now = now,
                     !.tmp = Trim(Append(history[username],
                                Entry(now, "sentiment_analysis", Rep("q", 3),
                                      ToolResult(Rep("r", 5)))))]]
            /\ pc' = [pc EXCEPT ![t] = "open_history"]
            /\ UNCHANGED ret
    /\ UNCHANGED <<now, users, usersFile, keys, keysFile, limits, limitsFile,
                   history, issued, log, session, torn>>

\* The file thread t is about to write, or is writing.
FileOf(t) ==
    CASE pc[t] \in {"open_users", "dump_users"} -> UsersFileName
      [] pc[t] \in {"open_keys", "dump_keys"} -> KeysFileName
      [] pc[t] \in {"open_limits", "dump_limits"} -> LimitsFileName
      [] OTHER -> HistoryFileName(frame[t].user)

\* with open(file, 'w') as f: the file is truncated, its contents are gone.
OpenW(t) ==
    /\ pc[t] \in {"open_users", "open_keys", "open_limits", "open_history"}
    /\ torn' = torn \cup {FileOf(t)}
    /\ usersFile' = IF pc[t] = "open_users" THEN EmptyDict ELSE usersFile
    /\ keysFile' = IF pc[t] = "open_keys" THEN EmptyDict ELSE keysFile
    /\ limitsFile' = IF pc[t] = "open_limits" THEN EmptyDict ELSE limitsFile
    /\ history' = IF pc[t] = "open_history"
                  THEN [history EXCEPT ![frame[t].user] = <<>>]
                  ELSE history
    /\ pc' = [pc EXCEPT ![t] =
                CASE pc[t] = "open_users" -> "dump_users"
                  [] pc[t] = "open_keys" -> "dump_keys"
                  [] pc[t] = "open_limits" -> "dump_limits"
                  [] OTHER -> "dump_history"]
    /\ UNCHANGED <<now, users, keys, limits, ret, issued, calls, log, frame,
                   session>>

\* json.dump(.., f, indent=2) and the end of the with block: the file holds
\* the whole text, unless another request is still writing the same file.
Dump(t) ==
    /\ pc[t] \in {"dump_users", "dump_keys", "dump_limits", "dump_history"}
    /\ torn' = IF \E s \in Threads \ {t} : pc[s] = pc[t] /\ FileOf(s) = FileOf(t)
               THEN torn
               ELSE torn \ {FileOf(t)}
    /\ usersFile' = IF pc[t] = "dump_users" THEN users[t] ELSE usersFile
    /\ keysFile' = IF pc[t] = "dump_keys" THEN keys[t] ELSE keysFile
    /\ limitsFile' = IF pc[t] = "dump_limits" THEN limits[t] ELSE limitsFile
    /\ history' = IF pc[t] = "dump_history"
                  THEN [history EXCEPT ![frame[t].user] = frame[t].tmp]
                  ELSE history
    /\ ret' = CASE pc[t] = "dump_users" ->
                     Ret("register_user", TRUE, "Registration successful")
                [] pc[t] = "dump_keys" -> Ret("generate_key", TRUE, "")
                [] pc[t] = "dump_limits" ->
                     RetLimit(TRUE, 0, GetLimit("guest"))
                [] OTHER -> RetHistory("add_entry", TRUE, "", <<>>)
    /\ pc' = [pc EXCEPT ![t] = "idle"]
    /\ UNCHANGED <<now, users, keys, limits, issued, calls, log, frame,
                   session>>

\* The process dies while a request is under way: every request is gone,
\* the files stay as they are.
Crash ==
    /\ \E t \in Threads : pc[t] # "idle"
    /\ pc' = [t \in Threads |-> "idle"]
    /\ ret' = NoRet
    /\ UNCHANGED <<now, users, usersFile, keys, keysFile, limits, limitsFile,
                   history, issued, calls, log, frame, session, torn>>

\* The one user whose requests SpecCrash follows.
CrashUsers == {"alice"}

NextCrash ==
    \/ \E t \in Threads, u \in CrashUsers : SignupBegin(t, u)
    \/ \E t \in Threads, u \in CrashUsers : GenerateBegin(t, u)
    \/ \E t \in Threads, u \in CrashUsers : CheckBegin(t, u)
    \/ \E t \in Threads, u \in CrashUsers : AddBegin(t, u)
    \/ \E t \in Threads : OpenW(t)
    \/ \E t \in Threads : Dump(t)
    \/ Crash

SpecCrash == Init /\ [][NextCrash]_vars

\* The files of the stores.
StoreFiles ==
    {UsersFileName, KeysFileName, LimitsFileName}
    \cup {HistoryFileName(u) : u \in Users}

\* C16: a save is atomic for whoever reads the file: at every point of a
\* save, and after a crash between the start and the end of the write,
\* users.json, api_keys.json, rate_limits.json and every history file hold
\* the complete previous or the complete new contents, never an empty or
\* partly written text.
C16_SavesAreAtomic == \A file \in StoreFiles : file \notin torn

\* C19: a file that does not exist loads as the empty state, and the request
\* goes on from it; a file that exists but is no whole JSON text makes the
\* load fail with an error for the caller: the request stops there, nothing
\* in memory or on disk changes, and no save is begun, so neither a window
\* of rate_limits.json nor a history file is started afresh.
C19_CorruptIsLoud ==
    [][calls' = calls + 1 =>
         \A t \in Threads, u \in CrashUsers :
            /\ SignupBegin(t, u) =>
                 IF UsersFileName \in torn
                 THEN /\ ret'.op = "UserManager" /\ ~ret'.ok
                      /\ ret'.msg = "JSONDecodeError"
                      /\ UNCHANGED <<users, usersFile, torn, pc>>
                 ELSE usersFile = EmptyDict =>
                         (DOMAIN users'[t] = {u} /\ pc'[t] = "open_users")
            /\ GenerateBegin(t, u) =>
                 IF KeysFileName \in torn
                 THEN /\ ret'.op = "APIKeyManager" /\ ~ret'.ok
                      /\ ret'.msg = "JSONDecodeError"
                      /\ UNCHANGED <<keys, keysFile, torn, pc>>
                 ELSE keysFile = EmptyDict =>
                         (Cardinality(DOMAIN keys'[t]) = 1
                          /\ pc'[t] = "open_keys")
            /\ CheckBegin(t, u) =>
                 IF LimitsFileName \in torn
                 THEN /\ ret'.op = "RateLimiter" /\ ~ret'.ok
                      /\ ret'.msg = "JSONDecodeError"
                      /\ UNCHANGED <<limits, limitsFile, torn, pc>>
                 ELSE limitsFile = EmptyDict =>
                         (limits'[t] = [x \in {u} |-> <<isoformat(now)>>]
                          /\ pc'[t] = "open_limits")
            /\ AddBegin(t, u) =>
                 IF HistoryFileName(u) \in torn
                 THEN /\ ret'.op = "add_entry" /\ ~ret'.ok
                      /\ ret'.msg = "JSONDecodeError"
                      /\ UNCHANGED <<history, frame, torn, pc>>
                 ELSE history[u] = <<>> =>
                         (Len(frame'[t].tmp) = 1 /\ pc'[t] = "open_history")
      ]_vars

\* C19's case: the process died while rate_limits.json was being written
\* over an earlier window, and the RateLimiter of the next request has just
\* failed to load it.
C19_Witness ==
    /\ ret.op = "RateLimiter"
    /\ ret.msg = "JSONDecodeError"
    /\ LimitsFileName \in torn
    /\ \A t \in Threads : pc[t] = "idle"
    /\ \E t \in Threads : Len(Get(limits[t], "alice", <<>>)) = 2

-----------------------------------------------------------------------------
(* Properties of UserManager.update_user, under Spec *)

\* C18: update_user returns True exactly when the manager has the account.
\* Then the fields listed in updates hold the given values, every other
\* field of the account and every other account are as before, no account
\* appears or disappears, and users.json holds the result.  For an unknown
\* username it returns False, creates no account and leaves the manager's
\* accounts and users.json as they were.
C18_UpdateExisting ==
    [][ret'.op = "update_user" =>
       \A u \in Users, upd \in Updates :
          update_user(1, u, upd) =>
             IF u \in DOMAIN users[1]
             THEN /\ ret'.ok
                  /\ DOMAIN users'[1] = DOMAIN users[1]
                  /\ \A f \in DOMAIN upd : users'[1][u][f] = upd[f]
                  /\ \A f \in (DOMAIN users[1][u]) \ (DOMAIN upd) :
                        /\ f \in DOMAIN users'[1][u]
                        /\ users'[1][u][f] = users[1][u][f]
                  /\ DOMAIN users'[1][u] =
                        (DOMAIN users[1][u]) \cup (DOMAIN upd)
                  /\ \A v \in (DOMAIN users[1]) \ {u} :
                        users'[1][v] = users[1][v]
                  /\ usersFile' = users'[1]
             ELSE /\ ~ret'.ok
                  /\ users' = users
                  /\ usersFile' = usersFile
                  /\ u \notin DOMAIN usersFile']_vars

\* C18's case: two accounts are stored and update_user has just set the
\* tier of one of them, which users.json shows, the other account and the
\* account's own address and creation time being as registered.
C18_Witness ==
    /\ ret.op = "update_user"
    /\ ret.ok
    /\ DOMAIN usersFile = Users
    /\ \E u \in Users :
          /\ usersFile[u].tier = "pro"
          /\ usersFile[u].password.kind = "bcrypt"
          /\ \A v \in Users \ {u} : usersFile[v].tier = "user"

-----------------------------------------------------------------------------
(* SpecPages: the pages of one browser session, one request after the other *)

\* Page requests explored after the initial state.
MaxRequests == 2
\* Rows of the CSV file a batch request uploads.
MaxRows == 2

\* The tools of the tool pages, and those the batch page offers.
PageTools ==
    {"sentiment_analysis", "text_summarization", "fake_news_detection",
     "job_matching"}
BatchTools == PageTools \ {"job_matching"}

\* analyze_sentiment / summarize_text / detect_fake_news / match_job is
\* called in request number r of the session.
ToolCalled(tool, r) ==
    [op |-> "tool", tool |-> tool, user |-> session.username, request |-> r,
     ok |-> TRUE]

\* login_page, lines 375-383: UserManager(), authenticate_user, get_user
LoginPage(i, username, password) ==
    /\ ~session.authenticated
    /\ IF Unreadable(UsersFileName)
       THEN /\ ret' = RetRaised("UserManager")
            /\ UNCHANGED <<users, session>>
       ELSE LET r == AuthResult(load_users, username, password)
            IN  /\ users' = [users EXCEPT ![i] = load_users]
                /\ ret' = Ret("authenticate_user", r = "True", r)
                /\ session' =
                     IF r = "True"
                     THEN [authenticated |-> TRUE,
                           username |-> Some(username),
                           user_tier |->
                              Some(Get(load_users[username], "tier", "user"))]
                     ELSE session
    /\ UNCHANGED <<now, usersFile, keys, keysFile, limits, limitsFile, history,
                   issued, calls, log, pc, frame, torn>>

\* logout, lines 426-431
Logout ==
    /\ session.authenticated
    /\ session' = [authenticated |-> FALSE, username |-> None,
                   user_tier |-> None]
    /\ UNCHANGED <<now, users, usersFile, keys, keysFile, limits, limitsFile,
                   history, ret, issued, calls, log, pc, frame, torn>>

\* text_summarization_page refuses a text shorter than this (line 514).
MinSummaryLen == 50

\* The texts a session enters on a tool page.
PageTexts == {Rep("q", 3), Rep("q", MinSummaryLen)}

\* f"Resume vs Job", line 638
ResumeVsJob ==
    <<"R", "e", "s", "u", "m", "e", " ", "v", "s", " ", "J", "o", "b">>

\* The button is pressed and the text is not empty (lines 451, 513, 561,
\* 627); text_summarization_page returns with a warning when the text has
\* fewer than 50 characters (lines 514-516).
PageRuns(tool, text) ==
    /\ Len(text) > 0
    /\ tool = "text_summarization" => ~(Len(text) < MinSummaryLen)

\* The query a page hands to add_entry: the text entered, but the fixed
\* string "Resume vs Job" on job_matching_page (lines 635-640).
PageQuery(tool, text) ==
    IF tool = "job_matching" THEN ResumeVsJob ELSE text

\* A tool page (sentiment_analysis_page, lines 451-494, and the three like
\* it), shown by main to an authenticated session: the tool is called; if it
\* returns and the session is authenticated, add_entry records the call; an
\* exception of the tool or of add_entry is shown as an error.
ToolPage(tool, text) ==
    /\ session.authenticated
    /\ PageRuns(tool, text)
    /\ calls < MaxRequests
    /\ calls' = calls + 1
    /\ log' = Append(log, ToolCalled(tool, calls + 1))
    /\ \/ /\ ret' = Ret(tool, FALSE, "Exception")
          /\ UNCHANGED <<now, users, usersFile, keys, keysFile, limits,
                         limitsFile, history, issued, pc, frame, session,
                         torn>>
       \/ /\ session.authenticated
          /\ add_entry(session.username[1], tool, PageQuery(tool, text),
                       ToolResult(Rep("r", 5)))

\* batch_processing_page, lines 713-746: the tool is called for one row
\* after the other, until the rows are done or a call raises.
BatchPage(tool) ==
    /\ session.authenticated
    /\ calls < MaxRequests
    /\ calls' = calls + 1
    /\ \E rows \in 1..MaxRows :
          log' = log \o [k \in 1..rows |-> ToolCalled(tool, calls + 1)]
    /\ \E ok \in BOOLEAN : ret' = Ret("batch", ok, "")
    /\ UNCHANGED <<now, users, usersFile, keys, keysFile, limits, limitsFile,
                   history, issued, pc, frame, session, torn>>

NextPages ==
    \/ StampTick
    \/ UserManagerInit(1)
    \/ register_user(1, "alice", SignupPassword(1), SignupEmail(1))
    \/ \E u \in Users, p \in {SignupPassword(1), SignupPassword(2)} :
          LoginPage(1, u, p)
    \/ Logout
    \/ \E tool \in PageTools, text \in PageTexts : ToolPage(tool, text)
    \/ \E tool \in BatchTools : BatchPage(tool)

SpecPages == Init /\ [][NextPages]_vars

\* C17: a tool (analyze_sentiment, summarize_text, detect_fake_news,
\* match_job; every row of a batch) is called only after a check_limit for
\* the requesting user, made in the same request, has admitted the request.
C17_ToolAfterAdmission ==
    \A k \in DOMAIN log :
       log[k].op = "tool" =>
          \E j \in 1..(k - 1) :
             /\ log[j].op = "check_limit"
             /\ log[j].ok
             /\ log[j].request = log[k].request
             /\ log[j].user = log[k].user

-----------------------------------------------------------------------------
(* SpecTabs: the pages of one session, while another session of the same
   user records a tool call and the process may die *)

\* Another browser tab of a registered user records a tool call of its own:
\* HistoryManager().add_entry up to the save (lines 125-146); the save
\* follows in the steps OpenW and Dump.
OtherTabAdd(t, username) ==
    /\ username \in DOMAIN usersFile
    /\ AddBegin(t, username)

\* The process dies while a request is under way and is started again: the
\* files stay as they are, the sessions are gone (main, lines 941-946).
Restart ==
    /\ \E t \in Threads : pc[t] # "idle"
    /\ pc' = [t \in Threads |-> "idle"]
    /\ ret' = NoRet
    /\ session' = NoSession
    /\ UNCHANGED <<now, users, usersFile, keys, keysFile, limits, limitsFile,
                   history, issued, calls, log, frame, torn>>

NextTabs ==
    \/ StampTick
    \/ UserManagerInit(1)
    \/ register_user(1, "alice", SignupPassword(1), SignupEmail(1))
    \/ \E u \in Users, p \in {SignupPassword(1), SignupPassword(2)} :
          LoginPage(1, u, p)
    \/ Logout
    \/ \E tool \in PageTools, text \in PageTexts : ToolPage(tool, text)
    \/ OtherTabAdd(2, "alice")
    \/ OpenW(2)
    \/ Dump(2)
    \/ Restart

SpecTabs == Init /\ [][NextTabs]_vars

\* C21: a tool request appends a history entry only if the session is
\* authenticated and the tool call returned without raising: a tool call
\* that raises, or a request of an unauthenticated session, leaves every
\* user's history unchanged, and a successful authenticated request appends
\* exactly one entry, an entry of the tool requested, to the history of the
\* session's username and changes no other user's history.
C21_HistoryOnlyOnSuccess ==
    [][\A tool \in PageTools, text \in PageTexts :
          ToolPage(tool, text) =>
             LET u == session.username[1]
                 h == history'[u]
             IN  IF ~session.authenticated \/ ret'.op = tool
                 THEN history' = history
                 ELSE /\ Len(h) > 0
                      /\ h[Len(h)].tool = tool
                      /\ h = LastN(Append(history[u], h[Len(h)]), KeepLast)
                      /\ \A v \in Users \ {u} : history'[v] = history[v]]_vars

=============================================================================
